---------------------------- MODULE Spec2Model ----------------------------
(***************************************************************************)
(* The dengue outbreak prediction pipeline: three batch jobs over a        *)
(* tabular dataset held in object storage.                                 *)
(*   containers/1-data-cleaning/clean_data.py          (cleaner)           *)
(*   containers/2-feature-engineering/create_features.py (feature builder) *)
(*   containers/3-eda/generate_eda.py                  (report generator)  *)
(*                                                                         *)
(* A dataset is [cols, n, data]: the ordered column names, the number of   *)
(* rows and, per column, the sequence of its cells.  A numeric cell is a   *)
(* rational <<num, den>> in lowest terms (den > 0); the missing value NaN  *)
(* is <<0, 0>>; a standard deviation is <<num, den, 2>>, the square root   *)
(* of num/den.  A DATE cell is <<y, m, d>> and the missing date NaT is     *)
(* <<0, 0, 0>>.  All datasets are numeric CSVs (every cell a number or     *)
(* empty), so every column but DATE has dtype int64/float64 after          *)
(* read_csv.                                                               *)
(***************************************************************************)
EXTENDS Integers, Sequences, FiniteSets, TLC

VARIABLES store, env, run, report

vars == <<store, env, run, report>>

(***************************************************************************)
(* Cells                                                                   *)
(***************************************************************************)
NaN == <<0, 0>>

NaT == <<0, 0, 0>>

Num(v) == <<v, 1>>

isnull(x) == x[2] = 0

Abs(a) == IF a < 0 THEN -a ELSE a

RECURSIVE Gcd(_, _)
Gcd(a, b) == IF b = 0 THEN a ELSE Gcd(b, a % b)

\* the rational n/d in lowest terms (d > 0)
Rat(n, d) ==
    LET g == Gcd(Abs(n), d) IN <<n \div g, d \div g>>

\* x < 0 on a numeric cell; a comparison with NaN is False
IsNegative(x) == x[2] > 0 /\ x[1] < 0

Add(x, y) ==
    IF isnull(x) \/ isnull(y) THEN NaN
    ELSE Rat(x[1] * y[2] + y[1] * x[2], x[2] * y[2])

Sub(x, y) ==
    IF isnull(x) \/ isnull(y) THEN NaN
    ELSE Rat(x[1] * y[2] - y[1] * x[2], x[2] * y[2])

Mul(x, y) ==
    IF isnull(x) \/ isnull(y) THEN NaN
    ELSE Rat(x[1] * y[1], x[2] * y[2])

(***************************************************************************)
(* Dataframe primitives (pandas)                                           *)
(***************************************************************************)
Range(s) == {s[i] : i \in 1..Len(s)}

\* the cells of a computed column, as a list
tolist(s) == SubSeq(s, 1, Len(s))

HasCol(df, c) == c \in Range(df.cols)

\* df[c]: the cells of column c
Col(df, c) == df.data[CHOOSE j \in 1..Len(df.cols) : df.cols[j] = c]

\* df[c] = vals : replaces the column in place, or appends a new one
AssignCol(df, c, vals) ==
    IF HasCol(df, c)
    THEN [df EXCEPT !.data = tolist([j \in 1..Len(df.cols) |->
                                IF df.cols[j] = c THEN tolist(vals) ELSE df.data[j]])]
    ELSE [cols |-> Append(df.cols, c),
          n    |-> df.n,
          data |-> Append(df.data, tolist(vals))]

\* df[[c for c in order if c in df.columns]]
SelectCols(df, order) ==
    LET kept == SelectSeq(order, LAMBDA c : HasCol(df, c))
    IN  [cols |-> kept,
         n    |-> df.n,
         data |-> tolist([j \in 1..Len(kept) |-> Col(df, kept[j])])]

\* df.drop(columns=names, errors='ignore')
DropCols(df, names) ==
    SelectCols(df, SelectSeq(df.cols, LAMBDA c : c \notin names))

\* df.iloc[indexer].reset_index(drop=True)
Take(df, indexer) ==
    [df EXCEPT !.data = tolist([j \in 1..Len(df.cols) |->
        tolist([i \in 1..df.n |-> df.data[j][indexer[i]]])])]

\* the order key of a valid date
DateKey(t) == t[1] * 10000 + t[2] * 100 + t[3]

MinKeyRows(dates, S) ==
    {i \in S : \A j \in S : DateKey(dates[i]) <= DateKey(dates[j])}

\* every ascending arrangement of the rows S; kind='quicksort' is not a
\* stable sort, so rows with equal keys come out in any order
RECURSIVE Ascending(_, _)
Ascending(dates, S) ==
    IF S = {} THEN {<< >>}
    ELSE UNION {{<<i>> \o t : t \in Ascending(dates, S \ {i})} :
                    i \in MinKeyRows(dates, S)}

\* the rows whose sort key is missing, in their original order
NaTRows(dates) ==
    SelectSeq([i \in 1..Len(dates) |-> i], LAMBDA i : dates[i] = NaT)

\* the frame left in its input order
nargsortUnsorted(dates) == {[i \in 1..Len(dates) |-> i]}

\* nargsort(k, kind='quicksort', na_position='last'): the rows with a date
\* sorted ascending, then the rows with NaT in their original order
nargsort(dates) ==
    {a \o NaTRows(dates) :
        a \in Ascending(dates, {i \in 1..Len(dates) : dates[i] # NaT})}

\* Series.ffill(): each missing cell takes the nearest preceding value
RECURSIVE ffill(_)
ffill(s) ==
    IF Len(s) <= 1 THEN s
    ELSE LET head == ffill(SubSeq(s, 1, Len(s) - 1))
             last == s[Len(s)]
         IN  Append(head, IF isnull(last) THEN head[Len(head)] ELSE last)

\* Series.bfill(): each missing cell takes the nearest following value
RECURSIVE bfill(_)
bfill(s) ==
    IF Len(s) <= 1 THEN s
    ELSE LET rest == bfill(Tail(s))
         IN  <<IF isnull(s[1]) THEN rest[1] ELSE s[1]>> \o rest

\* Series.fillna(v)
fillna(s, v) == tolist([i \in 1..Len(s) |-> IF isnull(s[i]) THEN v ELSE s[i]])

(***************************************************************************)
(* Cleaner: clean_data                                                     *)
(***************************************************************************)
DaysInMonth(y, m) ==
    IF m = 2
    THEN (IF y % 4 = 0 /\ (y % 100 # 0 \/ y % 400 = 0) THEN 29 ELSE 28)
    ELSE IF m \in {4, 6, 9, 11} THEN 30 ELSE 31

\* the years a Timestamp holds whole (1677-09-21 .. 2262-04-11)
MinYear == 1678

MaxYear == 2261

\* pd.to_datetime(df[['YEAR', 'MONTH', 'DAY']], errors='coerce') on one row:
\* the three numbers are assembled as YEAR*10000 + MONTH*100 + DAY and that
\* number is parsed as %Y%m%d; what does not parse is NaT
to_datetime(year, month, day) ==
    IF isnull(year) \/ isnull(month) \/ isnull(day) THEN NaT
    ELSE LET v == year[1] * 10000 + month[1] * 100 + day[1]
             y == v \div 10000
             m == (v \div 100) % 100
             d == v % 100
         IN  IF /\ v > 0
                /\ y >= MinYear /\ y <= MaxYear
                /\ m >= 1 /\ m <= 12
                /\ d >= 1 /\ d <= DaysInMonth(y, m)
             THEN <<y, m, d>>
             ELSE NaT

\* Step 2, first line: df['DATE'] = pd.to_datetime(...)
CreateDate(df) ==
    AssignCol(df, "DATE",
        [i \in 1..df.n |->
            to_datetime(Col(df, "YEAR")[i], Col(df, "MONTH")[i],
                        Col(df, "DAY")[i])])

temp_humidity_cols == <<"TMAX", "TMIN", "Ave. Temp", "RH">>

\* Step 3 for the temperature and humidity columns
FillTempHumidity(s) == bfill(ffill(s))

\* Step 3 for rainfall
FillRainfall(s) == fillna(s, Num(0))

\* the case-count fill without the final fillna(0)
FillDengueForwardOnly(s) == ffill(s)

\* the case-count fill with the weather columns' backward fill
FillDengueBothWays(s) == fillna(bfill(ffill(s)), Num(0))

\* Step 3 for the case counts
FillDengue(s) == fillna(ffill(s), Num(0))

FillColumn(c, s) ==
    IF c \in Range(temp_humidity_cols) THEN FillTempHumidity(s)
    ELSE IF c = "RAINFALL" THEN FillRainfall(s)
    ELSE IF c = "DENGUE CASES" THEN FillDengue(s)
    ELSE s

HandleMissing(df) ==
    [df EXCEPT !.data = tolist([j \in 1..Len(df.cols) |->
        FillColumn(df.cols[j], df.data[j])])]

\* df.select_dtypes(include=['float64', 'int64']).columns: DATE is the one
\* column that is not a number
NumericCols(df) == SelectSeq(df.cols, LAMBDA c : c # "DATE")

\* the clamp with the comparison df[col] < -1
ClampColumnBelowMinusOne(s) ==
    tolist([i \in 1..Len(s) |->
        IF IsNegative(s[i]) /\ s[i] # Num(-1) THEN Num(0) ELSE s[i]])

\* Step 4 on one column: df.loc[df[col] < 0, col] = 0
ClampColumn(s) ==
    tolist([i \in 1..Len(s) |-> IF IsNegative(s[i]) THEN Num(0) ELSE s[i]])

\* the clamp written df.loc[df[col] < 0] = 0, which zeroes the whole row
RemoveNegativesWholeRow(df) ==
    LET hit(i) == \E c \in Range(NumericCols(df)) \ {"YEAR", "MONTH", "DAY"} :
                      IsNegative(Col(df, c)[i])
    IN  [df EXCEPT !.data = tolist([j \in 1..Len(df.cols) |->
            tolist([i \in 1..df.n |->
                IF hit(i) /\ df.cols[j] # "DATE" THEN Num(0) ELSE df.data[j][i]])])]

RemoveNegatives(df) ==
    [df EXCEPT !.data = tolist([j \in 1..Len(df.cols) |->
        IF df.cols[j] \in Range(NumericCols(df)) \ {"YEAR", "MONTH", "DAY"}
        THEN ClampColumn(df.data[j])
        ELSE df.data[j]])]

col_order ==
    <<"DATE", "YEAR", "MONTH", "DAY", "RAINFALL", "TMAX", "TMIN",
      "Ave. Temp", "RH", "DENGUE CASES">>

\* df[['YEAR', 'MONTH', 'DAY']] raises KeyError when one of them is absent
CleanRaises(df) == ~(HasCol(df, "YEAR") /\ HasCol(df, "MONTH") /\ HasCol(df, "DAY"))

\* Steps 1 and 2 up to the sort: the frame whose DATE column is the sort key
CleanDated(df) == CreateDate(DropCols(df, {"WIND_SPEED", "WIND_DIRECTION"}))

\* the transformation of clean_data, given the indexer the sort produced
CleanFrame(df, indexer) ==
    SelectCols(RemoveNegatives(HandleMissing(Take(CleanDated(df), indexer))),
               col_order)

(***************************************************************************)
(* Object storage, environment and the jobs' entry points                  *)
(*                                                                         *)
(* store[k] is << >> when no blob is stored under key k and <<df>> when    *)
(* the CSV of df is.  env holds the variables AWS Batch sets: a bucket     *)
(* variable is << >> when unset and <<name>> when set; env.fault is the    *)
(* storage call that raises in this deployment ("get", "put" or "none"),    *)
(* or "late" for a storage that accepts the first put of a job and may     *)
(* reject any later one.  env.OUTPUT_PREFIX is << >> when unset and        *)
(* <<p>> when set to the string p, a string being the tuple of its pieces  *)
(* ("/" and the runs of other characters).                                 *)
(* run is the record of the latest job run: its exit status is -1 while    *)
(* the job is running.  report is the set of report blobs in the output    *)
(* bucket.                                                                 *)
(***************************************************************************)
Keys == {"raw", "cleaned", "recleaned", "features", "eda/summary_statistics.csv"}

NoBlob == << >>

Unset == << >>

BucketValues == {Unset, <<"">>, <<"dengue-data">>}

Faults == {"none", "get", "put", "late"}

\* OUTPUT_PREFIX: unset, '', 'eda' and 'out/'
PrefixValues == {Unset, << << >> >>, << <<"eda">> >>, << <<"out", "/">> >>}

\* str.endswith
endswith(p, suffix) == p # << >> /\ p[Len(p)] = suffix

\* the report generator's output_prefix: OUTPUT_PREFIX, 'eda/' by default,
\* with a '/' appended unless it ends with one
output_prefix ==
    LET given == IF env.OUTPUT_PREFIX = Unset THEN <<"eda", "/">>
                 ELSE env.OUTPUT_PREFIX[1]
    IN  IF endswith(given, "/") THEN given ELSE Append(given, "/")

\* `not input_bucket`: None and the empty string are falsy
NotSet(v) == v = Unset \/ v = <<"">>

EnvMissing == NotSet(env.INPUT_BUCKET) \/ NotSet(env.OUTPUT_BUCKET)

\* an except branch that logs the exception and falls through to the end of
\* the script
ExitStatusSwallowed(missing, raised) == IF missing THEN 1 ELSE 0

\* the exit status of __main__: sys.exit(1) on a missing bucket or on an
\* exception of the processing function, 0 when the script runs to its end
ExitStatus(missing, raised) == IF missing \/ raised THEN 1 ELSE 0

NoRun ==
    [job |-> "none", inKey |-> "raw", outKey |-> "raw", pc |-> "done",
     exit |-> 0, gets |-> 0, puts |-> << >>, raised |-> FALSE,
     indexer |-> << >>, corr |-> << >>, df |-> << >>, prefix |-> << >>,
     written |-> << >>]

Idle == run.pc = "done"

\* s3.get_object raises when the storage fails or the key does not exist
GetRaises(key) == env.fault = "get" \/ store[key] = NoBlob

\* the end of a run: __main__ exits; the puts of a run that raised were
\* not stored
Finish(job, inKey, outKey, gets, puts, raised, indexer) ==
    run' = [job |-> job, inKey |-> inKey, outKey |-> outKey, pc |-> "done",
            exit |-> ExitStatus(EnvMissing, raised), gets |-> gets,
            puts |-> puts, raised |-> raised, indexer |-> indexer,
            corr |-> << >>, df |-> << >>,
            prefix |-> IF job = "eda" THEN output_prefix ELSE << >>,
            written |-> IF raised THEN << >> ELSE puts]

\* df.to_csv and s3.put_object at the end of a processing function, then
\* its return
Upload(job, inKey, outKey, out, indexer) ==
    IF env.fault = "put"
    THEN /\ Finish(job, inKey, outKey, 1, <<outKey>>, TRUE, indexer)
         /\ UNCHANGED store
    ELSE /\ Finish(job, inKey, outKey, 1, <<outKey>>, FALSE, indexer)
         /\ store' = [store EXCEPT ![outKey] = <<out>>]

\* the cleaner job, __main__ and clean_data, from INPUT_KEY to OUTPUT_KEY
RunCleaner(inKey, outKey) ==
    /\ Idle
    /\ UNCHANGED <<env, report>>
    /\ IF EnvMissing
       THEN /\ Finish("cleaner", inKey, outKey, 0, << >>, FALSE, << >>)
            /\ UNCHANGED store
       ELSE IF GetRaises(inKey) \/ CleanRaises(store[inKey][1])
       THEN /\ Finish("cleaner", inKey, outKey, 1, << >>, TRUE, << >>)
            /\ UNCHANGED store
       ELSE LET df == store[inKey][1]
            IN  \E indexer \in nargsort(Col(CleanDated(df), "DATE")) :
                    Upload("cleaner", inKey, outKey,
                           CleanFrame(df, indexer), indexer)

(***************************************************************************)
(* Feature builder: create_lag_features                                    *)
(***************************************************************************)
lag_periods == <<7, 14, 21>>

rolling_windows == <<7, 14>>

weather_vars == <<"RAINFALL", "TMAX", "TMIN", "Ave. Temp", "RH">>

\* f"{var}_LAG{lag}" for the lags of lag_periods, in their order, and
\* f"DENGUE_CASES_LAG{lag}" for the case counts
LagNames(var) ==
    CASE var = "RAINFALL" -> <<"RAINFALL_LAG7", "RAINFALL_LAG14", "RAINFALL_LAG21">>
      [] var = "TMAX" -> <<"TMAX_LAG7", "TMAX_LAG14", "TMAX_LAG21">>
      [] var = "TMIN" -> <<"TMIN_LAG7", "TMIN_LAG14", "TMIN_LAG21">>
      [] var = "Ave. Temp" -> <<"Ave. Temp_LAG7", "Ave. Temp_LAG14", "Ave. Temp_LAG21">>
      [] var = "RH" -> <<"RH_LAG7", "RH_LAG14", "RH_LAG21">>
      [] var = "DENGUE CASES" ->
            <<"DENGUE_CASES_LAG7", "DENGUE_CASES_LAG14", "DENGUE_CASES_LAG21">>

\* f"{var}_ROLL_MEAN_{window}D" for the windows of rolling_windows, and
\* f"DENGUE_CASES_ROLL_MEAN_{window}D" for the case counts
RollMeanNames(var) ==
    CASE var = "RAINFALL" -> <<"RAINFALL_ROLL_MEAN_7D", "RAINFALL_ROLL_MEAN_14D">>
      [] var = "TMAX" -> <<"TMAX_ROLL_MEAN_7D", "TMAX_ROLL_MEAN_14D">>
      [] var = "TMIN" -> <<"TMIN_ROLL_MEAN_7D", "TMIN_ROLL_MEAN_14D">>
      [] var = "Ave. Temp" -> <<"Ave. Temp_ROLL_MEAN_7D", "Ave. Temp_ROLL_MEAN_14D">>
      [] var = "RH" -> <<"RH_ROLL_MEAN_7D", "RH_ROLL_MEAN_14D">>
      [] var = "DENGUE CASES" ->
            <<"DENGUE_CASES_ROLL_MEAN_7D", "DENGUE_CASES_ROLL_MEAN_14D">>

\* f"{var}_ROLL_STD_{window}D"
RollStdNames(var) ==
    CASE var = "RAINFALL" -> <<"RAINFALL_ROLL_STD_7D", "RAINFALL_ROLL_STD_14D">>
      [] var = "TMAX" -> <<"TMAX_ROLL_STD_7D", "TMAX_ROLL_STD_14D">>
      [] var = "TMIN" -> <<"TMIN_ROLL_STD_7D", "TMIN_ROLL_STD_14D">>
      [] var = "Ave. Temp" -> <<"Ave. Temp_ROLL_STD_7D", "Ave. Temp_ROLL_STD_14D">>
      [] var = "RH" -> <<"RH_ROLL_STD_7D", "RH_ROLL_STD_14D">>

\* Series.shift(-periods): the value from `periods` rows later
shiftForward(s, periods) ==
    tolist([i \in 1..Len(s) |-> IF i + periods <= Len(s) THEN s[i + periods] ELSE NaN])

\* Series.shift(periods): the value from `periods` rows earlier
shift(s, periods) ==
    tolist([i \in 1..Len(s) |-> IF i > periods THEN s[i - periods] ELSE NaN])

\* the running state of a rolling aggregation over the trailing window:
\* <<sum, sum of squares, number of observations>> after each row, each row
\* adding its value and removing the one that leaves the window; missing
\* values are not observations
RECURSIVE RollingSums(_, _)
RollingSums(s, window) ==
    IF Len(s) = 0 THEN << >>
    ELSE LET before == RollingSums(SubSeq(s, 1, Len(s) - 1), window)
             prev == IF Len(s) = 1 THEN <<Num(0), Num(0), 0>> ELSE before[Len(s) - 1]
             new == s[Len(s)]
             added == IF isnull(new) THEN prev
                      ELSE <<Add(prev[1], new), Add(prev[2], Mul(new, new)), prev[3] + 1>>
             old == IF Len(s) > window THEN s[Len(s) - window] ELSE NaN
             now == IF isnull(old) THEN added
                    ELSE <<Sub(added[1], old), Sub(added[2], Mul(old, old)), added[3] - 1>>
         IN  Append(before, now)

\* Series.rolling(window=window).mean(): min_periods defaults to the window
rolling_mean_full_window(s, window) ==
    LET sums == RollingSums(s, window)
    IN  [i \in 1..Len(s) |->
            IF sums[i][3] >= window
            THEN Rat(sums[i][1][1], sums[i][1][2] * sums[i][3])
            ELSE NaN]

\* Series.rolling(window=window, min_periods=1).mean()
rolling_mean(s, window) ==
    LET sums == RollingSums(s, window)
    IN  [i \in 1..Len(s) |->
            IF sums[i][3] >= 1
            THEN Rat(sums[i][1][1], sums[i][1][2] * sums[i][3])
            ELSE NaN]

\* Series.rolling(window=window, min_periods=1).std(): the sample standard
\* deviation (ddof=1), missing with fewer than two observations
rolling_std(s, window) ==
    LET sums == RollingSums(s, window)
    IN  [i \in 1..Len(s) |->
            IF sums[i][3] >= 2
            THEN LET k == sums[i][3]
                     \* (k * sumsq - sum^2) / (k * (k - 1))
                     v == Sub(Mul(Num(k), sums[i][2]), Mul(sums[i][1], sums[i][1]))
                 IN  Rat(v[1], v[2] * k * (k - 1)) \o <<2>>
            ELSE NaN]

RECURSIVE Flatten(_)
Flatten(ss) == IF ss = << >> THEN << >> ELSE Head(ss) \o Flatten(Tail(ss))

\* df[names[j]] = columns[j] for each j in turn, the names all different:
\* a column df has already is replaced in place, the others are appended
AssignCols(df, names, columns) ==
    LET cols == df.cols \o SelectSeq(names, LAMBDA c : ~HasCol(df, c))
        assigned(c) == columns[CHOOSE j \in 1..Len(names) : names[j] = c]
    IN  [cols |-> cols,
         n    |-> df.n,
         data |-> tolist([j \in 1..Len(cols) |->
                     IF cols[j] \in Range(names) THEN tolist(assigned(cols[j]))
                     ELSE df.data[j]])]

\* the variables of vs that are columns of df
Present(df, vs) == SelectSeq(vs, LAMBDA v : HasCol(df, v))

\* the lag columns of the variables vs, variable by variable
CreateLags(df, vs) ==
    AssignCols(df,
        Flatten([v \in 1..Len(vs) |-> LagNames(vs[v])]),
        Flatten([v \in 1..Len(vs) |->
            [j \in 1..Len(lag_periods) |-> shift(Col(df, vs[v]), lag_periods[j])]]))

\* the rolling mean and standard deviation columns of the weather variables,
\* variable by variable and window by window
CreateRolling(df, vs) ==
    AssignCols(df,
        Flatten([v \in 1..Len(vs) |->
            <<RollMeanNames(vs[v])[1], RollStdNames(vs[v])[1],
              RollMeanNames(vs[v])[2], RollStdNames(vs[v])[2]>>]),
        Flatten([v \in 1..Len(vs) |->
            <<rolling_mean(Col(df, vs[v]), rolling_windows[1]),
              rolling_std(Col(df, vs[v]), rolling_windows[1]),
              rolling_mean(Col(df, vs[v]), rolling_windows[2]),
              rolling_std(Col(df, vs[v]), rolling_windows[2])>>]))

\* the rolling mean columns of the case counts
CreateCasesRolling(df) ==
    IF ~HasCol(df, "DENGUE CASES") THEN df
    ELSE AssignCols(df, RollMeanNames("DENGUE CASES"),
            [j \in 1..Len(rolling_windows) |->
                rolling_mean(Col(df, "DENGUE CASES"), rolling_windows[j])])

\* df[name] = op(df[a], df[b]) when both columns are present
Product(df, name, a, b) ==
    IF HasCol(df, a) /\ HasCol(df, b)
    THEN AssignCol(df, name, [i \in 1..df.n |-> Mul(Col(df, a)[i], Col(df, b)[i])])
    ELSE df

CreateInteractions(df) ==
    LET ranged ==
            IF HasCol(df, "TMAX") /\ HasCol(df, "TMIN")
            THEN AssignCol(df, "TEMP_RANGE",
                    [i \in 1..df.n |-> Sub(Col(df, "TMAX")[i], Col(df, "TMIN")[i])])
            ELSE df
    IN  Product(Product(ranged, "RAIN_TEMP_INTERACTION", "RAINFALL", "Ave. Temp"),
                "HUMIDITY_TEMP_INTERACTION", "RH", "Ave. Temp")

\* days from 0001-01-01 (day 1, a Monday) to the date
RECURSIVE DaysBeforeMonth(_, _)
DaysBeforeMonth(y, m) ==
    IF m = 1 THEN 0 ELSE DaysBeforeMonth(y, m - 1) + DaysInMonth(y, m - 1)

Ordinal(y, m, d) ==
    (y - 1) * 365 + (y - 1) \div 4 - (y - 1) \div 100 + (y - 1) \div 400
        + DaysBeforeMonth(y, m) + d

\* the Monday that starts ISO week 1 of year y
IsoWeek1Monday(y) ==
    LET first == Ordinal(y, 1, 1)
        weekday == (first + 6) % 7
    IN  IF weekday > 3 THEN first - weekday + 7 ELSE first - weekday

\* Series.dt.isocalendar().week of one date
IsoWeek(t) ==
    IF t = NaT THEN NaN
    ELSE LET today == Ordinal(t[1], t[2], t[3])
             week == (today - IsoWeek1Monday(t[1])) \div 7
         IN  IF today < IsoWeek1Monday(t[1])
             THEN Num((today - IsoWeek1Monday(t[1] - 1)) \div 7 + 1)
             ELSE IF week >= 52 /\ today >= IsoWeek1Monday(t[1] + 1)
             THEN Num(1)
             ELSE Num(week + 1)

\* Series.dt.quarter of one date
Quarter(t) == IF t = NaT THEN NaN ELSE Num((t[2] - 1) \div 3 + 1)

CreateTimeFeatures(df) ==
    AssignCols(df, <<"WEEK_OF_YEAR", "QUARTER", "IS_RAINY_SEASON">>,
        <<[i \in 1..df.n |-> IsoWeek(Col(df, "DATE")[i])],
          [i \in 1..df.n |-> Quarter(Col(df, "DATE")[i])],
          [i \in 1..df.n |->
              IF Col(df, "MONTH")[i] \in {Num(6), Num(7), Num(8), Num(9), Num(10)}
              THEN Num(1) ELSE Num(0)]>>)

\* read_csv(parse_dates=['DATE']) and sort_values('DATE') need the DATE
\* column, IS_RAINY_SEASON needs MONTH
FeaturesRaise(df) == ~(HasCol(df, "DATE") /\ HasCol(df, "MONTH"))

\* the transformation of create_lag_features, given the indexer of the sort
FeatureFrame(df, indexer) ==
    LET sorted == Take(df, indexer)
        lagged == CreateLags(CreateLags(sorted, Present(sorted, weather_vars)),
                             Present(sorted, <<"DENGUE CASES">>))
        rolled == CreateCasesRolling(
                      CreateRolling(lagged, Present(lagged, weather_vars)))
    IN  CreateTimeFeatures(CreateInteractions(rolled))

\* the feature builder job, __main__ and create_lag_features
RunFeatures(inKey, outKey) ==
    /\ Idle
    /\ UNCHANGED <<env, report>>
    /\ IF EnvMissing
       THEN /\ Finish("features", inKey, outKey, 0, << >>, FALSE, << >>)
            /\ UNCHANGED store
       ELSE IF GetRaises(inKey) \/ FeaturesRaise(store[inKey][1])
       THEN /\ Finish("features", inKey, outKey, 1, << >>, TRUE, << >>)
            /\ UNCHANGED store
       ELSE LET df == store[inKey][1]
            IN  \E indexer \in nargsort(Col(df, "DATE")) :
                    Upload("features", inKey, outKey,
                           FeatureFrame(df, indexer), indexer)

(***************************************************************************)
(* Report generator: generate_eda                                          *)
(***************************************************************************)
\* the column names that contain 'DENGUE'
NamesWithDENGUE ==
    {"DENGUE CASES"} \cup Range(LagNames("DENGUE CASES"))
        \cup Range(RollMeanNames("DENGUE CASES"))

\* the column names that contain 'LAG'
NamesWithLAG ==
    UNION {Range(LagNames(v)) : v \in Range(weather_vars) \cup {"DENGUE CASES"}}

calendar_cols == {"YEAR", "MONTH", "DAY", "WEEK_OF_YEAR", "QUARTER"}

\* the most columns the heatmap is meant to show
TopFeatures == 20

\* the first k elements of s, all of s when it has fewer
FirstN(s, k) == SubSeq(s, 1, IF k < Len(s) THEN k ELSE Len(s))

\* the columns passed to the correlation matrix
CorrColumns(df) ==
    LET numeric_cols == SelectSeq(NumericCols(df), LAMBDA c : c \notin calendar_cols)
        priority_cols == SelectSeq(numeric_cols,
                            LAMBDA c : c \in NamesWithDENGUE \/ c \notin NamesWithLAG)
        other_cols == SelectSeq(numeric_cols, LAMBDA c : c \notin Range(priority_cols))
        room == IF TopFeatures - Len(priority_cols) > 0
                THEN TopFeatures - Len(priority_cols) ELSE 0
    IN  IF Len(numeric_cols) > TopFeatures
        THEN priority_cols \o FirstN(other_cols, room)
        ELSE numeric_cols

\* the columns the time series, distribution and monthly plots index
PlottedVars == {"DENGUE CASES", "RAINFALL", "TMAX", "TMIN", "Ave. Temp", "RH"}

ReportBlobs ==
    <<"summary_statistics.csv", "correlation_heatmap.png", "timeseries_plots.png",
      "distributions.png", "monthly_aggregations.png">>

\* the string whose pieces are p
RECURSIVE Join(_)
Join(p) == IF p = << >> THEN "" ELSE Head(p) \o Join(Tail(p))

\* f"{output_prefix}{name}", the key of a report blob
OutputKey(name) == Join(output_prefix) \o name

\* what a report blob is when read back as a dataset: it has none of the
\* dataset's columns
ReportContent == [cols |-> << >>, n |-> 0, data |-> << >>]

\* an exception ends the running job: __main__ prints it and exits 1
Abort(puts, corr) ==
    /\ run' = [run EXCEPT !.pc = "done", !.raised = TRUE, !.puts = puts,
                          !.corr = corr, !.exit = ExitStatus(FALSE, TRUE)]
    /\ UNCHANGED <<report, store>>

\* the bucket after s3.put_object of the report blob name: the blob is
\* under its key, in place of whatever the key held
Stored(name) ==
    /\ report' = report \cup {OutputKey(name)}
    /\ store' = IF OutputKey(name) \in Keys
                THEN [store EXCEPT ![OutputKey(name)] = <<ReportContent>>]
                ELSE store

\* s3.put_object of a report blob, then the section that follows it; after
\* the last section generate_eda returns
PutBlob(name, next, corr) ==
    \/ /\ env.fault \in {"put", "late"}
       /\ Abort(Append(run.puts, name), corr)
    \/ /\ env.fault # "put"
       /\ run' = [run EXCEPT !.puts = Append(@, name), !.pc = next,
                       !.written = Append(@, name), !.corr = corr,
                       !.exit = IF next = "done" THEN ExitStatus(FALSE, FALSE) ELSE @]
       /\ Stored(name)

\* __main__, the download and section 1: the summary statistics
EdaSummary(inKey) ==
    /\ Idle
    /\ UNCHANGED env
    /\ IF EnvMissing
       THEN /\ Finish("eda", inKey, Join(output_prefix), 0, << >>, FALSE, << >>)
            /\ UNCHANGED <<report, store>>
       ELSE IF GetRaises(inKey) \/ ~HasCol(store[inKey][1], "DATE")
       THEN /\ Finish("eda", inKey, Join(output_prefix), 1, << >>, TRUE, << >>)
            /\ UNCHANGED <<report, store>>
       ELSE IF env.fault = "put"
       THEN /\ Finish("eda", inKey, Join(output_prefix), 1, <<ReportBlobs[1]>>,
                      TRUE, << >>)
            /\ UNCHANGED <<report, store>>
       ELSE /\ run' = [job |-> "eda", inKey |-> inKey,
                       outKey |-> Join(output_prefix),
                       pc |-> "heatmap", exit |-> -1, gets |-> 1,
                       puts |-> <<ReportBlobs[1]>>, raised |-> FALSE,
                       indexer |-> << >>, corr |-> << >>,
                       df |-> store[inKey][1], prefix |-> output_prefix,
                       written |-> <<ReportBlobs[1]>>]
            /\ Stored(ReportBlobs[1])

Running(section) == run.job = "eda" /\ run.pc = section

\* section 2: the correlation heatmap; a heatmap of no columns raises
EdaHeatmap ==
    /\ Running("heatmap")
    /\ UNCHANGED env
    /\ LET numeric_cols == CorrColumns(run.df)
       IN  IF numeric_cols = << >>
           THEN Abort(run.puts, numeric_cols)
           ELSE PutBlob(ReportBlobs[2], "timeseries", numeric_cols)

\* section 3: the time series plots index every plotted variable
EdaTimeseries ==
    /\ Running("timeseries")
    /\ UNCHANGED env
    /\ IF PlottedVars \subseteq Range(run.df.cols)
       THEN PutBlob(ReportBlobs[3], "distributions", run.corr)
       ELSE Abort(run.puts, run.corr)

\* section 4: the distribution plots
EdaDistributions ==
    /\ Running("distributions")
    /\ UNCHANGED env
    /\ PutBlob(ReportBlobs[4], "monthly", run.corr)

\* section 5: the monthly aggregation plot, then the return
EdaMonthly ==
    /\ Running("monthly")
    /\ UNCHANGED env
    /\ PutBlob(ReportBlobs[5], "done", run.corr)

\* the report generator with INPUT_KEY naming the feature dataset, or a
\* dataset kept under the key of the summary statistics
RunEda ==
    \/ EdaSummary("features")
    \/ EdaSummary("eda/summary_statistics.csv")
    \/ EdaHeatmap
    \/ EdaTimeseries
    \/ EdaDistributions
    \/ EdaMonthly

(***************************************************************************)
(* Raw inputs of the cleaner                                               *)
(***************************************************************************)
\* the greatest number of rows of the enumerated raw datasets
MaxRows == 3

raw_cols ==
    <<"YEAR", "MONTH", "DAY", "RAINFALL", "TMAX", "TMIN", "Ave. Temp", "RH",
      "WIND_SPEED", "WIND_DIRECTION", "DENGUE CASES">>

\* the frame with columns cols whose row i is rows[i], a function from
\* column name to cell
Frame(cols, rows) ==
    [cols |-> cols,
     n    |-> Len(rows),
     data |-> tolist([j \in 1..Len(cols) |->
                 tolist([i \in 1..Len(rows) |-> rows[i][cols[j]]])])]

Reading(rain, tmax, tmin, ave, rh, cases) ==
    [RAINFALL |-> rain, TMAX |-> tmax, TMIN |-> tmin, AveTemp |-> ave,
     RH |-> rh, CASES |-> cases]

\* the measurements of a raw row: each column takes a positive, a negative
\* and a missing value
Reported == Reading(Num(5), Num(30), Num(22), Num(26), Num(80), Num(3))

Gaps == Reading(NaN, Num(-5), NaN, NaN, Num(-1), NaN)

Mixed == Reading(Num(-2), NaN, Num(-3), Num(24), NaN, Num(-1))

RawReadings == {Reported, Gaps, Mixed}

RawRow(date, r) ==
    [k \in Range(raw_cols) |->
        CASE k = "YEAR" -> Num(date[1])
          [] k = "MONTH" -> Num(date[2])
          [] k = "DAY" -> Num(date[3])
          [] k = "RAINFALL" -> r.RAINFALL
          [] k = "TMAX" -> r.TMAX
          [] k = "TMIN" -> r.TMIN
          [] k = "Ave. Temp" -> r.AveTemp
          [] k = "RH" -> r.RH
          [] k = "DENGUE CASES" -> r.CASES
          [] OTHER -> Num(4)]

\* the raw rows: two different readings on the first day, one on the second
\* day, and one with a month that is no month
RawRows ==
    {RawRow(<<2020, 1, 1>>, Reported), RawRow(<<2020, 1, 1>>, Mixed),
     RawRow(<<2020, 1, 2>>, Gaps), RawRow(<<2020, -1, 5>>, Mixed)}

\* consecutive days from 2020-01-01 with one measured column, as in the
\* documented examples
Series(col, values) ==
    Frame(<<"YEAR", "MONTH", "DAY", col>>,
          [i \in 1..Len(values) |->
              [k \in {"YEAR", "MONTH", "DAY", col} |->
                  CASE k = "YEAR" -> Num(2020)
                    [] k = "MONTH" -> Num(1)
                    [] k = "DAY" -> Num(i)
                    [] OTHER -> values[i]]])

ExampleFrames ==
    {Series("TMAX", <<Num(30), Num(28), Num(-5), Num(32)>>),
     Series("DENGUE CASES", <<NaN, NaN, Num(3), NaN, Num(5)>>),
     \* no YEAR column
     Frame(<<"MONTH", "DAY", "TMAX">>,
           <<[MONTH |-> Num(1), DAY |-> Num(1), TMAX |-> Num(30)]>>),
     \* a DATE column that disagrees with YEAR, MONTH and DAY, and a column
     \* the cleaner does not know
     Frame(<<"DATE", "STATION", "YEAR", "MONTH", "DAY", "TMAX">>,
           <<[DATE |-> <<2020, 1, 9>>, STATION |-> Num(-7), YEAR |-> Num(2020),
              MONTH |-> Num(1), DAY |-> Num(2), TMAX |-> Num(-5)],
             [DATE |-> <<2020, 1, 8>>, STATION |-> Num(7), YEAR |-> Num(2020),
              MONTH |-> Num(0), DAY |-> Num(101), TMAX |-> NaN]>>),
     \* two different rows without a date around a dated one
     Frame(raw_cols, <<RawRow(<<2020, 13, 1>>, Reported),
                       RawRow(<<2020, 1, 1>>, Reported),
                       RawRow(<<2020, 2, 30>>, Gaps)>>)}

RawFrames ==
    ExampleFrames \cup
    UNION {{Frame(raw_cols, rows) : rows \in [1..n -> RawRows]} : n \in 1..MaxRows}

EmptyStore == [k \in Keys |-> NoBlob]

GoodEnv ==
    [INPUT_BUCKET |-> <<"dengue-data">>, OUTPUT_BUCKET |-> <<"dengue-data">>,
     OUTPUT_PREFIX |-> Unset, fault |-> "none"]

InitCleaner ==
    /\ \E df \in RawFrames : store = [EmptyStore EXCEPT !["raw"] = <<df>>]
    /\ env = GoodEnv
    /\ run = NoRun
    /\ report = {}

NextCleaner ==
    \/ RunCleaner("raw", "cleaned")
    \/ RunCleaner("cleaned", "recleaned")

SpecCleaner == InitCleaner /\ [][NextCleaner]_vars

(***************************************************************************)
(* Cleaned inputs of the feature builder                                   *)
(***************************************************************************)
\* the greatest number of rows of the generated daily series
MaxSeries == 23

\* the day of January 2020 of row i of an n-row series: in calendar order,
\* in reverse order, or in calendar order with the last row repeating the
\* first day
SeriesDay(order, n, i) ==
    CASE order = "ascending" -> i
      [] order = "descending" -> n + 1 - i
      [] order = "repeated" -> IF i = n THEN 1 ELSE i
      [] order = "undated" -> i

\* row i of a generated series; `undated` series have no DATE in row 2
SeriesRow(order, n, seed, i) ==
    LET day == SeriesDay(order, n, i)
    IN  [k \in Range(col_order) |->
            CASE k = "DATE" ->
                    IF order = "undated" /\ i = 2 THEN NaT ELSE <<2020, 1, day>>
              [] k = "YEAR" -> Num(2020)
              [] k = "MONTH" -> Num(1)
              [] k = "DAY" -> Num(day)
              [] k = "RAINFALL" -> Num((day * day + seed) % 11)
              [] k = "TMAX" -> IF (day + seed) % 4 = 0 THEN NaN ELSE Num(25 + ((day * 3) % 8))
              [] k = "TMIN" -> Num(18 + ((day * 5 + seed) % 6))
              [] k = "Ave. Temp" -> NaN
              [] k = "RH" -> IF day % 9 = seed THEN NaN ELSE Num(60 + ((day * 7) % 25))
              [] k = "DENGUE CASES" -> Num((day * 3 + seed * day) % 10)]

SeriesFrame(cols, order, n, seed) ==
    Frame(cols, [i \in 1..n |-> SeriesRow(order, n, seed, i)])

RainExample ==
    Frame(<<"DATE", "YEAR", "MONTH", "DAY", "RAINFALL">>,
        [i \in 1..10 |->
            [DATE |-> <<2020, 1, i>>, YEAR |-> Num(2020), MONTH |-> Num(1),
             DAY |-> Num(i),
             RAINFALL |-> <<Num(0), Num(5), Num(0), Num(0), Num(10), Num(0),
                            Num(0), Num(0), Num(0), Num(20)>>[i]]])

CleanedFrames ==
    {RainExample,
     \* without TMIN and RH
     SeriesFrame(<<"DATE", "YEAR", "MONTH", "DAY", "RAINFALL", "TMAX",
                   "Ave. Temp", "DENGUE CASES">>, "descending", MaxSeries, 1),
     \* without the case counts
     SeriesFrame(<<"DATE", "YEAR", "MONTH", "DAY", "RAINFALL", "TMAX", "TMIN",
                   "Ave. Temp", "RH">>, "ascending", MaxSeries, 0),
     \* without DATE, and without MONTH
     SeriesFrame(<<"YEAR", "MONTH", "DAY", "RAINFALL">>, "ascending", 2, 0),
     SeriesFrame(<<"DATE", "YEAR", "DAY", "RAINFALL">>, "ascending", 2, 0)}
    \cup
    {SeriesFrame(col_order, order, n, seed) :
        order \in {"ascending", "descending", "repeated", "undated"},
        n \in 2..MaxSeries, seed \in 0..1}

InitFeatures ==
    /\ \E df \in CleanedFrames : store = [EmptyStore EXCEPT !["cleaned"] = <<df>>]
    /\ env = GoodEnv
    /\ run = NoRun
    /\ report = {}

NextFeatures == RunFeatures("cleaned", "features")

SpecFeatures == InitFeatures /\ [][NextFeatures]_vars

(***************************************************************************)
(* Feature datasets of the report generator, and the whole pipeline        *)
(***************************************************************************)
\* the feature dataset the pipeline builds from a two-day raw dataset
PipelineFeatures ==
    LET raw == Frame(raw_cols,
                   <<RawRow(<<2020, 1, 1>>, Reading(Num(5), Num(30), Num(22), Num(26), Num(80), Num(3))),
                     RawRow(<<2020, 1, 2>>, Reading(Num(0), Num(31), Num(23), Num(27), Num(75), Num(4)))>>)
    IN  FeatureFrame(CleanFrame(raw, <<1, 2>>), <<1, 2>>)

\* the columns of the feature dataset df with the lag columns first
LagsFirst(df) ==
    SelectSeq(df.cols, LAMBDA c : c \in NamesWithLAG) \o
    SelectSeq(df.cols, LAMBDA c : c \notin NamesWithLAG)

\* the first and the last k columns of df in the column order all
Slices(df, all) ==
    {SelectCols(df, SubSeq(all, 1, k)) : k \in 1..Len(all)} \cup
    {SelectCols(df, SubSeq(all, k, Len(all))) : k \in 1..Len(all)}

\* feature datasets: the pipeline's, and its first and last k columns in
\* either column order
FeatureFrames ==
    UNION {Slices(df, tolist(df.cols)) \cup Slices(df, tolist(LagsFirst(df))) :
              df \in {PipelineFeatures}}

\* a feature dataset under the default key or under the key of the summary
\* statistics, any OUTPUT_PREFIX and any storage fault
InitEda ==
    /\ \E df \in FeatureFrames, k \in {"features", "eda/summary_statistics.csv"} :
            store = [EmptyStore EXCEPT ![k] = <<df>>]
    /\ \E prefix \in PrefixValues, fault \in Faults :
            env = [GoodEnv EXCEPT !.OUTPUT_PREFIX = prefix, !.fault = fault]
    /\ run = NoRun
    /\ report = {}

SpecEda == InitEda /\ [][RunEda]_vars

\* what the buckets hold before the pipeline runs: a raw dataset, or a
\* dataset left under the key of a later stage
PipelineStores ==
    {[EmptyStore EXCEPT !["raw"] = <<df>>] :
        df \in ExampleFrames \cup
               {Frame(raw_cols, <<r>>) : r \in RawRows} \cup
               {Frame(raw_cols, <<RawRow(<<2020, 1, 2>>, r), RawRow(<<2020, 1, 1>>, r)>>) :
                   r \in RawReadings}}
    \cup {[EmptyStore EXCEPT !["cleaned"] = <<RainExample>>],
          [EmptyStore EXCEPT !["features"] = <<PipelineFeatures>>],
          [EmptyStore EXCEPT !["eda/summary_statistics.csv"] = <<PipelineFeatures>>],
          EmptyStore}

Init ==
    /\ store \in PipelineStores
    /\ env \in [INPUT_BUCKET : BucketValues, OUTPUT_BUCKET : BucketValues,
                OUTPUT_PREFIX : PrefixValues, fault : Faults]
    /\ run = NoRun
    /\ report = {}

Next ==
    \/ RunCleaner("raw", "cleaned")
    \/ RunCleaner("cleaned", "recleaned")
    \/ RunFeatures("cleaned", "features")
    \/ RunEda

Spec == Init /\ [][Next]_vars

(***************************************************************************)
(* Properties of the cleaner                                               *)
(***************************************************************************)
\* a cleaner run has just succeeded: In is what it read, Out what it wrote
CleanerDone == run.job = "cleaner" /\ run.exit = 0

In == store[run.inKey][1]

Out == store[run.outKey][1]

\* the rows of the input column c in the order the sort put them
Sorted(c) == [i \in 1..In.n |-> Col(In, c)[run.indexer[i]]]

TmaxExample == Series("TMAX", <<Num(30), Num(28), Num(-5), Num(32)>>)

\* C2: after a successful clean_data no cell of a numeric output column
\* other than YEAR, MONTH and DAY is below 0, and TMAX = [30, 28, -5, 32]
\* is cleaned to [30, 28, 0, 32]
C2_NoNegativeAfterCleaning ==
    CleanerDone =>
        /\ \A c \in Range(NumericCols(Out)) \ {"YEAR", "MONTH", "DAY"} :
              \A i \in 1..Out.n : ~IsNegative(Col(Out, c)[i])
        /\ In = TmaxExample =>
              Col(Out, "TMAX") = <<Num(30), Num(28), Num(0), Num(32)>>

C2_Witness ==
    /\ CleanerDone
    /\ In = TmaxExample
    /\ Col(Out, "TMAX")[3] = Num(0)

\* C3: cleaning the cleaner's own output gives that output again, in row
\* order, column order and every cell
C3_CleanerIdempotent ==
    (CleanerDone /\ run.inKey = "cleaned") => Out = In

\* C4: the cleaned rows are in non-decreasing DATE order, and the rows
\* without a DATE come after all rows with one
C4_SortedByDate ==
    CleanerDone =>
        \A i, j \in 1..Out.n :
            i < j =>
                LET a == Col(Out, "DATE")[i]
                    b == Col(Out, "DATE")[j]
                IN  /\ (a # NaT /\ b # NaT) => DateKey(a) <= DateKey(b)
                    /\ a = NaT => b = NaT

C4_Witness ==
    /\ CleanerDone
    /\ run.inKey = "raw"
    /\ In.n = 3
    /\ Col(In, "DAY") = <<Num(5), Num(2), Num(1)>>
    /\ Col(Out, "DAY") = <<Num(1), Num(2), Num(5)>>
    /\ Col(Out, "DATE") = <<<<2020, 1, 1>>, <<2020, 1, 2>>, NaT>>

\* C5: with RAINFALL and DENGUE CASES in the input, no cleaned row misses
\* either of them
C5_RainAndCasesPopulated ==
    (CleanerDone /\ HasCol(In, "RAINFALL") /\ HasCol(In, "DENGUE CASES")) =>
        \A i \in 1..Out.n :
            /\ ~isnull(Col(Out, "RAINFALL")[i])
            /\ ~isnull(Col(Out, "DENGUE CASES")[i])

C5_Witness ==
    /\ CleanerDone
    /\ In.n = 3
    /\ \A i \in 1..3 : isnull(Col(In, "RAINFALL")[i]) /\ isnull(Col(In, "DENGUE CASES")[i])
    /\ Col(Out, "DENGUE CASES") = <<Num(0), Num(0), Num(0)>>

CasesExample == Series("DENGUE CASES", <<NaN, NaN, Num(3), NaN, Num(5)>>)

\* C6: in sorted order a missing case count becomes the nearest preceding
\* reported count, or 0 when none precedes it, and the result is clamped at
\* 0; [NaN, NaN, 3, NaN, 5] becomes [0, 0, 3, 3, 5]
C6_CasesForwardFilled ==
    (CleanerDone /\ HasCol(In, "DENGUE CASES")) =>
        LET s == Sorted("DENGUE CASES")
            reported(i) == {j \in 1..i : ~isnull(s[j])}
            filled(i) ==
                IF reported(i) = {} THEN Num(0)
                ELSE s[CHOOSE j \in reported(i) : \A k \in reported(i) : k <= j]
        IN  /\ \A i \in 1..Out.n :
                  Col(Out, "DENGUE CASES")[i] =
                      IF IsNegative(filled(i)) THEN Num(0) ELSE filled(i)
            /\ In = CasesExample =>
                  Col(Out, "DENGUE CASES") =
                      <<Num(0), Num(0), Num(3), Num(3), Num(5)>>

C6_Witness ==
    /\ CleanerDone
    /\ In = CasesExample
    /\ Col(Out, "DENGUE CASES") = <<Num(0), Num(0), Num(3), Num(3), Num(5)>>

\* the cells the cleaner may rewrite: the missing ones and the negative ones
Kept(x) == x # NaT /\ ~isnull(x) /\ ~IsNegative(x)

\* C9 as stated: as many rows out as in, and every non-missing, non-negative
\* cell of a column present in input and output is unchanged in its row
C9_RowsAndCellsKept ==
    CleanerDone =>
        /\ Out.n = In.n
        /\ \A c \in Range(Out.cols) \cap Range(In.cols) :
              \A i \in 1..Out.n :
                  Kept(Sorted(c)[i]) => Col(Out, c)[i] = Sorted(c)[i]

\* C9 amended: the same for every column but DATE, which is always rebuilt
\* from YEAR, MONTH and DAY
C9_RowsAndCellsKeptButDate ==
    CleanerDone =>
        /\ Out.n = In.n
        /\ \A c \in (Range(Out.cols) \cap Range(In.cols)) \ {"DATE"} :
              \A i \in 1..Out.n :
                  Kept(Sorted(c)[i]) => Col(Out, c)[i] = Sorted(c)[i]

C9_Witness ==
    /\ CleanerDone
    /\ run.inKey = "raw"
    /\ In.n = 3
    /\ run.indexer = <<3, 1, 2>>
    /\ Col(In, "TMAX") = <<Num(-5), NaN, Num(30)>>
    /\ Col(Out, "TMAX") = <<Num(30), Num(0), Num(0)>>
    /\ Col(Out, "MONTH") = <<Num(1), Num(1), Num(-1)>>

(***************************************************************************)
(* Properties of the feature builder                                       *)
(***************************************************************************)
FeaturesDone == run.job = "features" /\ run.exit = 0

\* the feature builder's output holds the input rows in DATE order
OutIsSorted ==
    /\ \A c \in Range(In.cols) : Col(Out, c) = Sorted(c)
    /\ \A i, j \in 1..Out.n :
          (i < j /\ Col(Out, "DATE")[i] # NaT /\ Col(Out, "DATE")[j] # NaT) =>
              DateKey(Col(Out, "DATE")[i]) <= DateKey(Col(Out, "DATE")[j])

SourceVars == {"RAINFALL", "TMAX", "TMIN", "Ave. Temp", "RH", "DENGUE CASES"}

\* C7: for every source variable X present and every lag L of 7, 14, 21,
\* the lag column at 0-based row i of the DATE-sorted dataset is X at row
\* i - L when i >= L and missing when i < L
C7_LagColumns ==
    FeaturesDone =>
        /\ OutIsSorted
        /\ \A X \in SourceVars \cap Range(In.cols) :
              \A j \in 1..3 :
                  LET L == <<7, 14, 21>>[j]
                      lag == Col(Out, LagNames(X)[j])
                  IN  \A i \in 0..(Out.n - 1) :
                          lag[i + 1] = IF i >= L THEN Col(Out, X)[i + 1 - L] ELSE NaN

C7_Witness ==
    /\ FeaturesDone
    /\ Out.n = 23
    /\ Col(In, "DAY")[1] = Num(23)
    /\ Col(Out, "DAY")[1] = Num(1)
    /\ Col(Out, "RAINFALL")[2] # Col(Out, "RAINFALL")[1]
    /\ Col(Out, "RAINFALL_LAG21")[22] = Col(Out, "RAINFALL")[1]
    /\ Col(Out, "RAINFALL_LAG21")[23] = Col(Out, "RAINFALL")[2]
    /\ Col(Out, "DENGUE_CASES_LAG7")[7] = NaN
    /\ Col(Out, "DENGUE_CASES_LAG7")[8] = Col(Out, "DENGUE CASES")[1]

\* the sum of the reported values of s over rows lo..hi
RECURSIVE SumOver(_, _, _)
SumOver(s, lo, hi) ==
    IF lo > hi THEN Num(0)
    ELSE IF isnull(s[hi]) THEN SumOver(s, lo, hi - 1)
    ELSE Add(SumOver(s, lo, hi - 1), s[hi])

\* the arithmetic mean of the reported values of s over rows lo..hi,
\* missing when none is reported
MeanOver(s, lo, hi) ==
    LET count == Cardinality({k \in lo..hi : ~isnull(s[k])})
        total == SumOver(s, lo, hi)
    IN  IF count = 0 THEN NaN ELSE Rat(total[1], total[2] * count)

\* C8: for every variable present and every window w of 7, 14, the rolling
\* mean at 0-based row i of the DATE-sorted dataset is the arithmetic mean
\* of the variable over rows max(0, i - w + 1)..i, and the 7-row mean of
\* RAINFALL = [0,5,0,0,10,0,0,0,0,20] at row 9 is 30/7
C8_RollingMean ==
    FeaturesDone =>
        /\ OutIsSorted
        /\ \A X \in SourceVars \cap Range(In.cols) :
              \A j \in 1..2 :
                  LET w == <<7, 14>>[j]
                      mean == Col(Out, RollMeanNames(X)[j])
                  IN  \A i \in 0..(Out.n - 1) :
                          mean[i + 1] =
                              MeanOver(Col(Out, X),
                                       (IF i - w + 1 > 0 THEN i - w + 1 ELSE 0) + 1,
                                       i + 1)
        /\ In = RainExample => Col(Out, "RAINFALL_ROLL_MEAN_7D")[10] = <<30, 7>>

C8_Witness ==
    /\ FeaturesDone
    /\ In = RainExample
    /\ Col(Out, "RAINFALL_ROLL_MEAN_7D")[10] = <<30, 7>>
    /\ Col(Out, "RAINFALL_ROLL_MEAN_7D")[2] = <<5, 2>>

(***************************************************************************)
(* Properties of the report generator and of the jobs' entry points        *)
(***************************************************************************)
\* C1: the columns passed to the correlation matrix are never more than 20
\* and include every numeric non-calendar column with 'DENGUE' in its name
C1_CorrAtMost20WithDengue ==
    (run.job = "eda" /\ run.corr # << >>) =>
        /\ Len(run.corr) <= 20
        /\ \A c \in Range(NumericCols(run.df)) \ calendar_cols :
              c \in NamesWithDENGUE => c \in Range(run.corr)

\* a job has exited
Exited == run.job # "none" /\ run.pc = "done"

\* every put of the job was made and stored
Delivered ==
    IF run.job = "eda"
    THEN /\ run.puts = ReportBlobs
         /\ \A name \in Range(ReportBlobs) : OutputKey(name) \in report
    ELSE run.puts = <<run.outKey>> /\ store[run.outKey] # NoBlob

\* C10: a job with INPUT_BUCKET or OUTPUT_BUCKET unset or empty exits 1
\* without a storage get or put; otherwise it exits 0 exactly when its
\* processing function returns without raising, and 1 when it raises
C10_ExitStatus ==
    Exited =>
        /\ run.exit \in {0, 1}
        /\ (NotSet(env.INPUT_BUCKET) \/ NotSet(env.OUTPUT_BUCKET)) =>
              (run.exit = 1 /\ run.gets = 0 /\ run.puts = << >>)
        /\ ~(NotSet(env.INPUT_BUCKET) \/ NotSet(env.OUTPUT_BUCKET)) =>
              /\ run.exit = 0 <=> ~run.raised
              /\ run.raised => run.exit = 1
              /\ run.exit = 0 => Delivered
              /\ (env.fault \in {"get", "put"} \/ store[run.inKey] = NoBlob) =>
                    run.exit = 1

C10_Witness ==
    /\ Exited
    /\ run.job = "eda"
    /\ run.exit = 0
    /\ Delivered
    /\ ~NotSet(env.INPUT_BUCKET)

(***************************************************************************)
(* Properties of the report generator's blobs                              *)
(***************************************************************************)
EdaRun == run.job = "eda"

\* the first k names of the fixed order of the report blobs
FirstBlobs(k) == SubSeq(ReportBlobs, 1, k)

\* the puts a run made and the blobs it stored are the first ones of the
\* fixed order, each put made once, and at most the last put was not stored
BlobsInOrder ==
    EdaRun =>
        /\ Len(run.puts) <= Len(ReportBlobs)
        /\ run.puts = FirstBlobs(Len(run.puts))
        /\ run.written = FirstBlobs(Len(run.written))
        /\ Len(run.puts) - Len(run.written) \in {0, 1}

\* every blob a run stored is in the bucket under the run's prefix, and
\* the prefix ends with '/'
UnderPrefix ==
    EdaRun =>
        /\ endswith(run.prefix, "/")
        /\ \A name \in Range(run.written) :
              Join(run.prefix) \o name \in report

\* a run that has exited: status 1 when it raised, status 0 exactly when it
\* stored all five blobs; without 'DENGUE CASES' it exits 1 before the
\* third blob
ExitMatchesBlobs ==
    (EdaRun /\ run.pc = "done") =>
        /\ run.raised => run.exit = 1
        /\ run.exit = 0 <=> run.written = ReportBlobs
        /\ (run.df # << >> /\ ~HasCol(run.df, "DENGUE CASES")) =>
              (run.exit = 1 /\ Len(run.written) <= 2)

\* no step removes a blob; a running job stores at most the next blob of
\* the order; after a job has exited, only a new invocation stores a blob
NothingRemoved ==
    [][/\ report \subseteq report'
       /\ (EdaRun /\ run.pc # "done") =>
             /\ run'.written \in {run.written,
                                  FirstBlobs(Len(run.written) + 1)}
             /\ run'.raised => run'.written = run.written /\ report' = report
       /\ (EdaRun /\ run.pc = "done") =>
             (report' = report \/ run'.written = FirstBlobs(1))]_vars

\* no step of the report generator changes the blob under its INPUT_KEY
InputNeverWritten ==
    [][run'.job = "eda" => store'[run'.inKey] = store[run'.inKey]]_vars

\* C11: the report blobs are stored in the fixed order under a prefix that
\* ends with '/'; a failure ends the run with status 1, stores nothing
\* more and removes nothing, so the stored blobs are the first ones of the
\* order and all five exactly when the run exits 0; no put is repeated and
\* the input blob is never written
C11_ReportBlobsInOrder ==
    /\ [](BlobsInOrder /\ UnderPrefix /\ ExitMatchesBlobs)
    /\ NothingRemoved
    /\ InputNeverWritten

=============================================================================
